---- MODULE Spec2Model ----
(***************************************************************************)
(* Model of change-timeseries.py: a single-column table of timestamps is   *)
(* loaded from a CSV file or generated, converted to datetime values,      *)
(* expanded to eight calendar columns, printed and charted.                *)
(*                                                                         *)
(* Two specifications are given.  Spec is a run of the command line        *)
(* program (the __main__ block and the two main functions).  SpecCalls     *)
(* applies one function of the module to arguments drawn from bounded      *)
(* sets.                                                                   *)
(***************************************************************************)
EXTENDS Integers, Sequences, FiniteSets

VARIABLES
    heap,            \* the DataFrame objects alive, by identity (1..Len(heap))
    stdout,          \* what print() has written, in order
    figures,         \* matplotlib's figures, in order of creation
    shown,           \* number of plt.show() calls
    fs,              \* the file system: path -> file
    date_range_raises, \* pd.date_range raises for a reason outside its arguments
    argv,            \* the command line
    pc,              \* position of the run / of the single call
    input_df,        \* local of the main functions (0 is None)
    transformed_df,  \* local of the main functions
    result_df,       \* local of the main functions
    exc,             \* the exception that left the function or the program
    calls,           \* the stages entered so far, in order
    failed,          \* the stages that failed so far, in order
    entered,         \* the main functions entered so far, in order
    call,            \* SpecCalls: the function applied and its arguments
    ret              \* SpecCalls: the value returned (0 is None)

vars == <<heap, stdout, figures, shown, fs, date_range_raises, argv, pc,
          input_df, transformed_df, result_df, exc, calls, failed, entered,
          call, ret>>

(***************************************************************************)
(* Bounds of the model.                                                    *)
(***************************************************************************)
MaxRows == 2      \* rows of a table drawn as an input
MaxPanels == 2    \* length of the category and title lists drawn
MaxKinds == 3     \* length of the kind list drawn
MaxPeriods == 2   \* largest periods argument drawn for the generator

(***************************************************************************)
(* Values held in table cells.  Every cell is a record of the same shape:  *)
(*   k  the kind of value: "str", "nan", "ts", "nat", "int"                *)
(*   f  integer fields: <<y, m, d, h, mi>> for a string that reads as a    *)
(*      date and time, <<minutes since 1970-01-01 00:00>> for a datetime,  *)
(*      <<n>> for an integer                                               *)
(*   s  the characters of any other string                                 *)
(***************************************************************************)
StrTs(y, m, d, h, mi) == [k |-> "str", f |-> <<y, m, d, h, mi>>, s |-> <<>>]
StrText(chars) == [k |-> "str", f |-> <<>>, s |-> chars]
NaN == [k |-> "nan", f |-> <<>>, s |-> <<>>]
NaT == [k |-> "nat", f |-> <<>>, s |-> <<>>]
Ts(t) == [k |-> "ts", f |-> <<t>>, s |-> <<>>]
IntCell(n) == [k |-> "int", f |-> <<n>>, s |-> <<>>]

IsNA(c) == c.k \in {"nan", "nat"}

(***************************************************************************)
(* Calendar arithmetic as pandas performs it on the int64 representation.  *)
(***************************************************************************)
is_leapyear(y) == (y % 4 = 0 /\ y % 100 # 0) \/ y % 400 = 0

days_per_month(y, m) ==
    IF m = 2 THEN (IF is_leapyear(y) THEN 29 ELSE 28)
    ELSE IF m \in {4, 6, 9, 11} THEN 30 ELSE 31

\* days since 1970-01-01 of the civil date y-m-d
days_from_civil(y, m, d) ==
    LET yy == IF m <= 2 THEN y - 1 ELSE y
        era == yy \div 400
        yoe == yy - era * 400
        mp == IF m > 2 THEN m - 3 ELSE m + 9
        doy == (153 * mp + 2) \div 5 + d - 1
        doe == yoe * 365 + yoe \div 4 - yoe \div 100 + doy
    IN  era * 146097 + doe - 719468

\* the civil date <<y, m, d>> of a day count since 1970-01-01
civil_from_days(z0) ==
    LET z == z0 + 719468
        era == z \div 146097
        doe == z - era * 146097
        yoe == (doe - doe \div 1460 + doe \div 36524 - doe \div 146096) \div 365
        doy == doe - (365 * yoe + yoe \div 4 - yoe \div 100)
        mp == (5 * doy + 2) \div 153
        d == doy - (153 * mp + 2) \div 5 + 1
        m == IF mp < 10 THEN mp + 3 ELSE mp - 9
        y == yoe + era * 400
    IN  <<IF m <= 2 THEN y + 1 ELSE y, m, d>>

MinutesPerDay == 24 * 60

\* fields of a datetime value t (minutes since the epoch)
ts_year(t) == civil_from_days(t \div MinutesPerDay)[1]
ts_month(t) == civil_from_days(t \div MinutesPerDay)[2]
ts_day(t) == civil_from_days(t \div MinutesPerDay)[3]
ts_hour(t) == (t % MinutesPerDay) \div 60

\* a variant that divides the month without the offset
ts_quarter_no_offset(t) == (ts_month(t) \div 3) + 1

\* .dt.quarter
ts_quarter(t) == ((ts_month(t) - 1) \div 3) + 1

\* .dt.dayofweek: Monday = 0 ... Sunday = 6
sakamoto_arr == <<0, 3, 2, 5, 0, 3, 5, 1, 4, 6, 2, 4>>

dayofweek(y, m, d) ==
    LET yy == IF m < 3 THEN y - 1 ELSE y
        day == (yy + yy \div 4 - yy \div 100 + yy \div 400
                + sakamoto_arr[m] + d) % 7
    IN  (day + 6) % 7

ts_dayofweek(t) == dayofweek(ts_year(t), ts_month(t), ts_day(t))

\* .dt.day_name()
DAYS_FULL ==
    << <<"M","o","n","d","a","y">>, <<"T","u","e","s","d","a","y">>,
       <<"W","e","d","n","e","s","d","a","y">>,
       <<"T","h","u","r","s","d","a","y">>, <<"F","r","i","d","a","y">>,
       <<"S","a","t","u","r","d","a","y">>, <<"S","u","n","d","a","y">> >>

ts_day_name(t) == DAYS_FULL[ts_dayofweek(t) + 1]

\* .str[:3]
str_slice3(chars) == SubSeq(chars, 1, IF Len(chars) < 3 THEN Len(chars) ELSE 3)

(***************************************************************************)
(* DataFrames.  A table is the sequence of its columns; a column has a     *)
(* name, a dtype and one value per row.                                    *)
(***************************************************************************)
Column(name, dtype, values) == [name |-> name, dtype |-> dtype, values |-> values]

columns(df) == [i \in 1..Len(df) |-> df[i].name]

HasColumn(df, name) == \E i \in 1..Len(df) : df[i].name = name

ColumnIndex(df, name) == CHOOSE i \in 1..Len(df) : df[i].name = name

GetColumn(df, name) == df[ColumnIndex(df, name)]

\* df[name] = column
SetColumn(df, name, dtype, values) ==
    IF HasColumn(df, name)
    THEN [df EXCEPT ![ColumnIndex(df, name)] = Column(name, dtype, values)]
    ELSE Append(df, Column(name, dtype, values))

NRows(df) == IF Len(df) = 0 THEN 0 ELSE Len(df[1].values)

EmptyFrame == <<>>

(***************************************************************************)
(* The process state a function reads and writes, and what a call yields.  *)
(***************************************************************************)
World(h, out, figs, sh) == [heap |-> h, stdout |-> out, figures |-> figs, shown |-> sh]

NoExc == [type |-> "", kind |-> "", items |-> <<>>]

Raise(type, kind, items) == [type |-> type, kind |-> kind, items |-> items]

Outcome(w, r, e) == [w |-> w, ret |-> r, exc |-> e]

\* a new object on the heap; its identity is Len(heap) + 1
Alloc(w, df) == [w EXCEPT !.heap = Append(@, df)]

NewId(w) == Len(w.heap) + 1

None == 0

(***************************************************************************)
(* load_dataframe_from_file                                                *)
(***************************************************************************)
\* os.path.exists(path)
path_exists(files, path) == files[path].state # "absent"

\* pd.read_csv(path) raises
read_csv_raises(files, path) == files[path].state = "garbage"

\* pd.read_csv(path), when it returns
read_csv(files, path) == files[path].table

\* a variant that keeps the header of the file
rename_single_column_skipped(df) == df

\* df.columns = ["timestamp"], on a table of one column
rename_single_column(df) == <<[df[1] EXCEPT !.name = "timestamp"]>>

load_dataframe_from_file(w, files, path) ==
    IF ~path_exists(files, path)
    THEN Outcome(w, None, Raise("FileNotFoundError", "NotFound", <<path>>))
    ELSE IF read_csv_raises(files, path)
    THEN Outcome(w, None, Raise("ValueError", "FormatError", <<>>))
    ELSE LET df == NewId(w)
             w1 == Alloc(w, read_csv(files, path))
         IN  IF Len(w1.heap[df]) # 1
             THEN Outcome(w1, None, Raise("ValueError", "FormatError", <<>>))
             ELSE Outcome([w1 EXCEPT !.heap[df] = rename_single_column(@)],
                          df, NoExc)

(***************************************************************************)
(* create_periodic_dataframe                                               *)
(***************************************************************************)
\* whether a string reads as a date and time
parses_as_datetime(c) ==
    /\ c.k = "str"
    /\ Len(c.f) = 5
    /\ c.f[2] \in 1..12
    /\ c.f[3] \in 1..days_per_month(c.f[1], c.f[2])
    /\ c.f[4] \in 0..23
    /\ c.f[5] \in 0..59

\* the datetime a string reads as
parse_datetime(c) ==
    days_from_civil(c.f[1], c.f[2], c.f[3]) * MinutesPerDay + c.f[4] * 60 + c.f[5]

\* a frequency is a multiple of a unit; its length in minutes
FREQ_UNITS == {"min", "h", "D"}

freq_valid(freq) == freq.unit \in FREQ_UNITS

freq_minutes(freq) ==
    freq.n * (CASE freq.unit = "min" -> 1
                [] freq.unit = "h" -> 60
                [] OTHER -> MinutesPerDay)

\* pd.date_range(start=, periods=, freq=) raises: on a start that is no date, an
\* unknown frequency, a negative periods, or for a reason outside its arguments
\* (the except clause of create_periodic_dataframe catches every Exception)
date_range_fails(start, periods, freq, env_raises) ==
    \/ env_raises
    \/ ~parses_as_datetime(start)
    \/ ~freq_valid(freq)
    \/ periods < 0

\* pd.date_range(start=, periods=, freq=), when it returns
date_range(start, periods, freq) ==
    [i \in 1..periods |-> Ts(parse_datetime(start) + (i - 1) * freq_minutes(freq))]

GENERATOR_ERROR_LINE == [kind |-> "message", ref |-> None]

create_periodic_dataframe(w, start_timedate_point, periods, freq, env_raises) ==
    IF date_range_fails(start_timedate_point, periods, freq, env_raises)
    THEN \* except Exception: print(...) and fall off the end of the function
         Outcome([w EXCEPT !.stdout = Append(@, GENERATOR_ERROR_LINE)], None, NoExc)
    ELSE LET timestamps == date_range(start_timedate_point, periods, freq)
         IN  Outcome(Alloc(w, <<Column("timestamp", "datetime64", timestamps)>>),
                     NewId(w), NoExc)

(***************************************************************************)
(* convert_to_datetime                                                     *)
(***************************************************************************)
NsPerMinute == 60 * 1000000000

\* pd.to_datetime(values, errors="raise") raises on a value
to_datetime_raises_on(c) == c.k = "str" /\ ~parses_as_datetime(c)

\* the datetime one value converts to; a missing value converts to NaT
to_datetime_value(c) ==
    CASE c.k = "str" -> Ts(parse_datetime(c))
      [] c.k = "ts" -> c
      [] c.k = "int" -> Ts(c.f[1] \div NsPerMinute)
      [] OTHER -> NaT

to_datetime_raises(values) == \E i \in 1..Len(values) : to_datetime_raises_on(values[i])

to_datetime(values) == [i \in 1..Len(values) |-> to_datetime_value(values[i])]

\* df.copy(): a new object with the same content
frame_copy(w, df) == Alloc(w, w.heap[df])

convert_to_datetime(w, df) ==
    IF df = None
    THEN Outcome(w, None, Raise("AttributeError", "AttributeError", <<"columns">>))
    ELSE IF ~HasColumn(w.heap[df], "timestamp")
    THEN Outcome(w, None, Raise("KeyError", "MissingColumn", <<"timestamp">>))
    ELSE LET result == NewId(w)
             w1 == frame_copy(w, df)
             values == GetColumn(w1.heap[result], "timestamp").values
         IN  IF to_datetime_raises(values)
             THEN Outcome(w1, None, Raise("ValueError", "ParseError", <<>>))
             ELSE Outcome([w1 EXCEPT !.heap[result] =
                               SetColumn(@, "timestamp", "datetime64", to_datetime(values))],
                          result, NoExc)

(***************************************************************************)
(* extract_parts                                                           *)
(***************************************************************************)
\* a variant that accepts every dtype
is_datetime64_any_dtype_unchecked(col) == TRUE

\* pd.api.types.is_datetime64_any_dtype(column)
is_datetime64_any_dtype(col) == col.dtype = "datetime64"

\* .dt.<field> of one datetime value
ts_field(t, field) ==
    CASE field = "day" -> ts_day(t)
      [] field = "month" -> ts_month(t)
      [] field = "year" -> ts_year(t)
      [] field = "hour" -> ts_hour(t)
      [] field = "quarter" -> ts_quarter(t)
      [] OTHER -> ts_dayofweek(t)

\* an integer field of every value; NaT has none, and the column is then float
dt_field(values, field) ==
    [i \in 1..Len(values) |->
        IF values[i].k = "ts" THEN IntCell(ts_field(values[i].f[1], field)) ELSE NaN]

dt_field_dtype(values) ==
    IF \E i \in 1..Len(values) : values[i].k # "ts" THEN "float64" ELSE "int32"

\* .dt.day_name().str[:3]
dt_day_name3(values) ==
    [i \in 1..Len(values) |->
        IF values[i].k = "ts"
        THEN StrText(str_slice3(ts_day_name(values[i].f[1])))
        ELSE NaN]

WEEKEND_DAYS == {5, 6}

\* column.isin([5, 6]).astype(int)
isin_weekend_astype_int(values) ==
    [i \in 1..Len(values) |->
        IF values[i].k = "int" /\ values[i].f[1] \in WEEKEND_DAYS
        THEN IntCell(1) ELSE IntCell(0)]

\* the table extract_parts builds from the timestamp values: the columns of
\* new_df in the order they are assigned
derived_frame(ts) ==
    <<Column("day", dt_field_dtype(ts), dt_field(ts, "day")),
      Column("month", dt_field_dtype(ts), dt_field(ts, "month")),
      Column("year", dt_field_dtype(ts), dt_field(ts, "year")),
      Column("hour", dt_field_dtype(ts), dt_field(ts, "hour")),
      Column("quarter", dt_field_dtype(ts), dt_field(ts, "quarter")),
      Column("weekday", dt_field_dtype(ts), dt_field(ts, "dayofweek")),
      Column("weekday_name", "object", dt_day_name3(ts)),
      Column("is_weekend", "int64", isin_weekend_astype_int(dt_field(ts, "dayofweek")))>>

extract_parts(w, df) ==
    IF df = None
    THEN Outcome(w, None, Raise("AttributeError", "AttributeError", <<"columns">>))
    ELSE IF ~HasColumn(w.heap[df], "timestamp")
    THEN Outcome(w, None, Raise("KeyError", "MissingColumn", <<"timestamp">>))
    ELSE IF ~is_datetime64_any_dtype(GetColumn(w.heap[df], "timestamp"))
    THEN Outcome(w, None, Raise("TypeError", "TypeMismatch", <<"timestamp">>))
    ELSE LET new_df == NewId(w)
             w1 == Alloc(w, derived_frame(GetColumn(w.heap[df], "timestamp").values))
         IN  \* return new_df.copy()
             Outcome(frame_copy(w1, new_df), NewId(w1), NoExc)

(***************************************************************************)
(* display                                                                 *)
(***************************************************************************)
allowed_kinds ==
    {"line", "bar", "barh", "kde", "density", "area", "hist", "box", "pie",
     "scatter", "hexbin"}

\* Series.plot refuses the kinds that need two columns
series_plot_raises(k) == k \in {"scatter", "hexbin"}

\* column.value_counts(): the count of every value present, missing ones dropped
value_counts(values) ==
    {<<values[i], Cardinality({j \in 1..Len(values) : values[j] = values[i]})>> :
        i \in {j \in 1..Len(values) : ~IsNA(values[j])}}

\* a variant that reports only the first absent column
missing_columns_first_only(frame, category) ==
    LET absent == SelectSeq(category, LAMBDA cat : ~HasColumn(frame, cat))
    IN  IF absent = <<>> THEN <<>> ELSE <<absent[1]>>

\* [cat for cat in category if cat not in df.columns]
missing_columns(frame, category) ==
    SelectSeq(category, LAMBDA cat : ~HasColumn(frame, cat))

\* a variant that reports only the first kind that is not allowed
not_allowed_kinds_first_only(kind) ==
    LET bad == SelectSeq(kind, LAMBDA k : k \notin allowed_kinds)
    IN  IF bad = <<>> THEN <<>> ELSE <<bad[1]>>

\* [k for k in kind if k not in allowed_kinds]
not_allowed_kinds(kind) == SelectSeq(kind, LAMBDA k : k \notin allowed_kinds)

\* plt.subplots(1, n): the figure is created, then the grid is laid out
new_figure(n) == [ncols |-> n, panels |-> <<>>]

\* what stops iteration i of the plotting loop, "" when the panel is drawn
panel_error(kind, title, i) ==
    IF i > Len(kind) \/ i > Len(title) THEN "IndexError"
    ELSE IF series_plot_raises(kind[i]) THEN "ValueError"
    ELSE ""

\* the first iteration of the loop that raises, n + 1 when none does
first_failing_panel(n, kind, title) ==
    IF \E i \in 1..n : panel_error(kind, title, i) # ""
    THEN CHOOSE i \in 1..n :
            /\ panel_error(kind, title, i) # ""
            /\ \A j \in 1..(i - 1) : panel_error(kind, title, j) = ""
    ELSE n + 1

draw_panel(frame, category, kind, title, i) ==
    [category |-> category[i], kind |-> kind[i], title |-> title[i],
     counts |-> value_counts(GetColumn(frame, category[i]).values)]

display(w, df, category, kind, title) ==
    LET n == Len(category)
    IN  IF n > 0 /\ df = None
        THEN Outcome(w, None, Raise("AttributeError", "AttributeError", <<"columns">>))
        ELSE IF n > 0 /\ missing_columns(w.heap[df], category) # <<>>
        THEN Outcome(w, None, Raise("KeyError", "MissingColumn",
                                    missing_columns(w.heap[df], category)))
        ELSE IF not_allowed_kinds(kind) # <<>>
        THEN Outcome(w, None, Raise("KeyError", "InvalidKind", not_allowed_kinds(kind)))
        ELSE LET fig == Len(w.figures) + 1
                 w1 == [w EXCEPT !.figures = Append(@, new_figure(n))]
                 stop == first_failing_panel(n, kind, title)
                 w2 == [w1 EXCEPT !.figures[fig].panels =
                           [i \in 1..(stop - 1) |->
                               draw_panel(w.heap[df], category, kind, title, i)]]
             IN  IF n = 0
                 THEN Outcome(w1, None, Raise("ValueError", "ValueError", <<>>))
                 ELSE IF stop <= n
                 THEN Outcome(w2, None,
                              Raise(panel_error(kind, title, stop),
                                    panel_error(kind, title, stop), <<>>))
                 ELSE \* plt.tight_layout(); plt.show()
                      Outcome([w2 EXCEPT !.shown = @ + 1], None, NoExc)

(***************************************************************************)
(* Inputs: cell values, tables, files, command lines.                      *)
(***************************************************************************)
SeqsUpTo(S, n) == UNION {[1..k -> S] : k \in 0..n}

TEXT_ABC == StrText(<<"a", "b", "c">>)

\* values a CSV file may hold in its rows
FilePool ==
    {StrTs(2025, 9, 16, 2, 35), StrTs(2025, 9, 20, 10, 0), StrTs(2025, 2, 29, 0, 0),
     NaN, TEXT_ABC}

\* values of a string column handed to convert_to_datetime
RawPool ==
    FilePool
    \cup {StrTs(2025, m, 15, 12, 0) : m \in 1..12}
    \cup {StrTs(2025, 9, 21, 23, 59), StrTs(2024, 2, 29, 0, 0), StrTs(2025, 13, 1, 0, 0)}

\* values of a datetime column: what to_datetime yields on the strings above
TsPool == {to_datetime_value(c) : c \in {x \in RawPool : ~to_datetime_raises_on(x)}}

Frame1(name, dtype, values) == <<Column(name, dtype, values)>>

\* what read_csv may return: one column under any header, or two columns
CsvTables ==
    {Frame1("ts", "object", v) : v \in SeqsUpTo(FilePool, MaxRows)}
    \cup {<<Column("ts", "object", v), Column("value", "object", v)>> :
            v \in SeqsUpTo({StrTs(2025, 9, 16, 2, 35)}, 1)}

AbsentFile == [state |-> "absent", table |-> EmptyFrame]
GarbageFile == [state |-> "garbage", table |-> EmptyFrame]
CsvFile(t) == [state |-> "csv", table |-> t]

Paths == {"", "data.csv", "missing.csv"}

FileSystems ==
    {[p \in Paths |-> IF p = "data.csv" THEN f ELSE AbsentFile] :
        f \in {AbsentFile, GarbageFile} \cup {CsvFile(t) : t \in CsvTables}}

\* --example_synthetic given or not, --file given or not and its value
CommandLines ==
    {a \in [example_synthetic : BOOLEAN, file_given : BOOLEAN, file : Paths] :
        ~a.file_given => a.file = ""}

NoCall ==
    [op |-> "", df |-> EmptyFrame, category |-> <<>>, kind |-> <<>>, title |-> <<>>,
     path |-> "", start |-> TEXT_ABC, periods |-> 0, freq |-> [n |-> 1, unit |-> "h"]]

(***************************************************************************)
(* The program: the __main__ block and the two main functions.             *)
(***************************************************************************)
SYNTHETIC_START == StrTs(2025, 9, 16, 2, 35)
SYNTHETIC_PERIODS == 15
SYNTHETIC_FREQ == [n |-> 14, unit |-> "h"]
MAIN_CATEGORY == <<"weekday_name", "weekday_name">>
MAIN_KIND == <<"bar", "pie">>
MAIN_TITLE == <<"Activity Count by Day of Week", "Days of the week">>

TABLE_LINE(df) == [kind |-> "table", ref |-> df]

Init ==
    /\ heap = <<>>
    /\ stdout = <<>>
    /\ figures = <<>>
    /\ shown = 0
    /\ fs \in FileSystems
    /\ date_range_raises \in BOOLEAN
    /\ argv \in CommandLines
    /\ pc = "start"
    /\ input_df = None
    /\ transformed_df = None
    /\ result_df = None
    /\ exc = NoExc
    /\ calls = <<>>
    /\ failed = <<>>
    /\ entered = <<>>
    /\ call = NoCall
    /\ ret = None

TheWorld == World(heap, stdout, figures, shown)

\* the effects of a call on the process state
Effects(o) ==
    /\ heap' = o.w.heap
    /\ stdout' = o.w.stdout
    /\ figures' = o.w.figures
    /\ shown' = o.w.shown

\* parser.parse_args(): the two options exclude each other and one is required
args_accepted(a) == a.example_synthetic # a.file_given

ParseArgs ==
    /\ pc = "start"
    /\ IF args_accepted(argv)
       THEN pc' = "dispatch" /\ exc' = exc
       ELSE pc' = "usage_error" /\ exc' = Raise("SystemExit", "UsageError", <<>>)
    /\ UNCHANGED <<heap, stdout, figures, shown, fs, date_range_raises, argv,
                   input_df, transformed_df, result_df, calls, failed, entered,
                   call, ret>>

\* the main function the if / elif selects, "" when neither branch is taken
selected_main(a) ==
    IF a.example_synthetic THEN "example_main_synthetic"
    ELSE IF a.file_given /\ a.file # "" THEN "main_read_file"
    ELSE ""

Dispatch ==
    /\ pc = "dispatch"
    /\ pc' = CASE selected_main(argv) = "example_main_synthetic" -> "generate"
               [] selected_main(argv) = "main_read_file" -> "load"
               [] OTHER -> "exit"
    /\ entered' = IF selected_main(argv) = "" THEN entered
                  ELSE Append(entered, selected_main(argv))
    /\ UNCHANGED <<heap, stdout, figures, shown, fs, date_range_raises, argv,
                   input_df, transformed_df, result_df, exc, calls, failed, call, ret>>

\* example_main_synthetic: input_df = create_periodic_dataframe(...)
Generate ==
    /\ pc = "generate"
    /\ LET o == create_periodic_dataframe(TheWorld, SYNTHETIC_START, SYNTHETIC_PERIODS,
                                          SYNTHETIC_FREQ, date_range_raises)
       IN  /\ Effects(o)
           /\ input_df' = o.ret
           /\ calls' = Append(calls, "generate")
           /\ failed' = IF o.ret = None THEN Append(failed, "generate") ELSE failed
           /\ pc' = "normalize"
    /\ UNCHANGED <<fs, date_range_raises, argv, transformed_df, result_df, exc,
                   entered, call, ret>>

\* main_read_file: input_df = load_dataframe_from_file(input_csv)
Load ==
    /\ pc = "load"
    /\ LET o == load_dataframe_from_file(TheWorld, fs, argv.file)
       IN  /\ Effects(o)
           /\ calls' = Append(calls, "load")
           /\ IF o.exc = NoExc
              THEN input_df' = o.ret /\ pc' = "normalize" /\ UNCHANGED <<exc, failed>>
              ELSE /\ exc' = o.exc
                   /\ pc' = "aborted"
                   /\ failed' = Append(failed, "load")
                   /\ UNCHANGED input_df
    /\ UNCHANGED <<fs, date_range_raises, argv, transformed_df, result_df,
                   entered, call, ret>>

\* transformed_df = convert_to_datetime(input_df)
Normalize ==
    /\ pc = "normalize"
    /\ LET o == convert_to_datetime(TheWorld, input_df)
       IN  /\ Effects(o)
           /\ calls' = Append(calls, "normalize")
           /\ IF o.exc = NoExc
              THEN transformed_df' = o.ret /\ pc' = "extract" /\ UNCHANGED <<exc, failed>>
              ELSE /\ exc' = o.exc
                   /\ pc' = "aborted"
                   /\ failed' = Append(failed, "normalize")
                   /\ UNCHANGED transformed_df
    /\ UNCHANGED <<fs, date_range_raises, argv, input_df, result_df, entered, call, ret>>

\* result_df = extract_parts(transformed_df)
Extract ==
    /\ pc = "extract"
    /\ LET o == extract_parts(TheWorld, transformed_df)
       IN  /\ Effects(o)
           /\ calls' = Append(calls, "extract")
           /\ IF o.exc = NoExc
              THEN result_df' = o.ret /\ pc' = "print" /\ UNCHANGED <<exc, failed>>
              ELSE /\ exc' = o.exc
                   /\ pc' = "aborted"
                   /\ failed' = Append(failed, "extract")
                   /\ UNCHANGED result_df
    /\ UNCHANGED <<fs, date_range_raises, argv, input_df, transformed_df,
                   entered, call, ret>>

\* print(result_df)
PrintResult ==
    /\ pc = "print"
    /\ stdout' = Append(stdout, TABLE_LINE(result_df))
    /\ calls' = Append(calls, "print")
    /\ pc' = "display"
    /\ UNCHANGED <<heap, figures, shown, fs, date_range_raises, argv, input_df,
                   transformed_df, result_df, exc, failed, entered, call, ret>>

\* display(result_df, [...], [...], [...])
Display ==
    /\ pc = "display"
    /\ LET o == display(TheWorld, result_df, MAIN_CATEGORY, MAIN_KIND, MAIN_TITLE)
       IN  /\ Effects(o)
           /\ calls' = Append(calls, "display")
           /\ IF o.exc = NoExc
              THEN pc' = "exit" /\ UNCHANGED <<exc, failed>>
              ELSE /\ exc' = o.exc
                   /\ pc' = "aborted"
                   /\ failed' = Append(failed, "display")
    /\ UNCHANGED <<fs, date_range_raises, argv, input_df, transformed_df, result_df,
                   entered, call, ret>>

Next ==
    \/ ParseArgs
    \/ Dispatch
    \/ Generate
    \/ Load
    \/ Normalize
    \/ Extract
    \/ PrintResult
    \/ Display

Spec == Init /\ [][Next]_vars

(***************************************************************************)
(* One function of the module applied to drawn arguments.                  *)
(***************************************************************************)
\* tables handed to convert_to_datetime
NormalizeArgs ==
    {Frame1("timestamp", "object", v) : v \in SeqsUpTo(RawPool, MaxRows)}
    \cup {Frame1("timestamp", "datetime64", v) : v \in SeqsUpTo(TsPool \ {NaT}, 1)}
    \cup {Frame1("ts", "object", v) : v \in SeqsUpTo(FilePool, 1)}

\* tables handed to extract_parts
ExtractArgs ==
    {Frame1("timestamp", "datetime64", v) : v \in SeqsUpTo(TsPool, MaxRows)}
    \cup {Frame1("timestamp", "object", v) : v \in SeqsUpTo(FilePool, 1)}
    \cup {Frame1("ts", "datetime64", v) : v \in SeqsUpTo(TsPool, 1)}

\* tables handed to display
DisplayFrames ==
    {derived_frame(<<Ts(parse_datetime(SYNTHETIC_START)),
                     to_datetime_value(StrTs(2025, 9, 20, 10, 0)),
                     Ts(parse_datetime(SYNTHETIC_START))>>),
     Frame1("timestamp", "datetime64", <<Ts(parse_datetime(SYNTHETIC_START))>>)}

CategoryPool == {"weekday_name", "foo", "baz"}
KindPool == {"bar", "scatter", "triangle", "circle"}
TitlePool == {"t"}

StartPool == {SYNTHETIC_START, StrTs(2024, 12, 31, 23, 0), TEXT_ABC}
FreqPool == {SYNTHETIC_FREQ, [n |-> 1, unit |-> "D"], [n |-> 14, unit |-> "x"]}

\* the calls drawn: a function of the module and its arguments
DrawnCall(c) ==
    \/ \E p \in Paths :
          c = [NoCall EXCEPT !.op = "load_dataframe_from_file", !.path = p]
    \/ \E s0 \in StartPool, n \in (-1)..MaxPeriods, f \in FreqPool :
          c = [NoCall EXCEPT !.op = "create_periodic_dataframe", !.start = s0,
                             !.periods = n, !.freq = f]
    \/ \E t \in NormalizeArgs :
          c = [NoCall EXCEPT !.op = "convert_to_datetime", !.df = t]
    \/ \E t \in ExtractArgs :
          c = [NoCall EXCEPT !.op = "extract_parts", !.df = t]
    \/ \E t \in DisplayFrames, ca \in SeqsUpTo(CategoryPool, MaxPanels),
          k \in SeqsUpTo(KindPool, MaxKinds), ti \in SeqsUpTo(TitlePool, MaxPanels) :
          c = [NoCall EXCEPT !.op = "display", !.df = t, !.category = ca, !.kind = k,
                             !.title = ti]

TableOps == {"convert_to_datetime", "extract_parts", "display"}

InitCalls ==
    /\ DrawnCall(call)
    /\ heap = IF call.op \in TableOps THEN <<call.df>> ELSE <<>>
    /\ stdout = <<>>
    /\ figures = <<>>
    /\ shown = 0
    /\ fs \in (IF call.op = "load_dataframe_from_file" THEN FileSystems
               ELSE {[p \in Paths |-> AbsentFile]})
    /\ date_range_raises \in (IF call.op = "create_periodic_dataframe" THEN BOOLEAN
                              ELSE {FALSE})
    /\ argv = [example_synthetic |-> FALSE, file_given |-> FALSE, file |-> ""]
    /\ pc = "call"
    /\ input_df = None
    /\ transformed_df = None
    /\ result_df = None
    /\ exc = NoExc
    /\ calls = <<>>
    /\ failed = <<>>
    /\ entered = <<>>
    /\ ret = None

\* the call returns or raises
Returns(o) ==
    /\ pc = "call"
    /\ Effects(o)
    /\ ret' = o.ret
    /\ exc' = o.exc
    /\ pc' = IF o.exc = NoExc THEN "returned" ELSE "raised"
    /\ calls' = Append(calls, call.op)
    /\ UNCHANGED <<fs, date_range_raises, argv, input_df, transformed_df, result_df,
                   failed, entered, call>>

CallLoad ==
    /\ call.op = "load_dataframe_from_file"
    /\ Returns(load_dataframe_from_file(TheWorld, fs, call.path))

CallGenerate ==
    /\ call.op = "create_periodic_dataframe"
    /\ Returns(create_periodic_dataframe(TheWorld, call.start, call.periods, call.freq,
                                         date_range_raises))

CallNormalize ==
    /\ call.op = "convert_to_datetime"
    /\ Returns(convert_to_datetime(TheWorld, 1))

CallExtract ==
    /\ call.op = "extract_parts"
    /\ Returns(extract_parts(TheWorld, 1))

CallDisplay ==
    /\ call.op = "display"
    /\ Returns(display(TheWorld, 1, call.category, call.kind, call.title))

NextCalls ==
    \/ CallLoad
    \/ CallGenerate
    \/ CallNormalize
    \/ CallExtract
    \/ CallDisplay

SpecCalls == InitCalls /\ [][NextCalls]_vars

(***************************************************************************)
(* Properties.                                                             *)
(***************************************************************************)
ColNames(df) == {df[i].name : i \in 1..Len(df)}

Range(q) == {q[i] : i \in 1..Len(q)}

CellsOf(df, name) == (CHOOSE c \in Range(df) : c.name = name).values

FixedKinds ==
    {"line", "bar", "barh", "kde", "density", "area", "hist", "box", "pie",
     "scatter", "hexbin"}

DisplayDone == call.op = "display" /\ pc # "call"

AllCategoriesPresent == \A i \in 1..Len(call.category) : call.category[i] \in ColNames(call.df)

\* C1: a display call in which every category is a column and some kind is outside
\* the fixed set raises the invalid-kind KeyError; the error lists every invalid kind
\* of the call and nothing else, no figure exists and nothing is shown.
C1_InvalidKindRejected ==
    (/\ DisplayDone
     /\ AllCategoriesPresent
     /\ \E i \in 1..Len(call.kind) : call.kind[i] \notin FixedKinds)
    => /\ pc = "raised"
       /\ exc.type = "KeyError"
       /\ exc.kind = "InvalidKind"
       /\ \A i \in 1..Len(call.kind) :
             call.kind[i] \notin FixedKinds => call.kind[i] \in Range(exc.items)
       /\ \A k \in Range(exc.items) : k \in Range(call.kind) /\ k \notin FixedKinds
       /\ Len(exc.items) = Cardinality({i \in 1..Len(call.kind) : call.kind[i] \notin FixedKinds})
       /\ figures = <<>>
       /\ shown = 0

\* a call on present categories with one valid kind between two invalid ones
C1_Witness ==
    /\ DisplayDone
    /\ call.category = <<"weekday_name", "weekday_name">>
    /\ HasColumn(call.df, "weekday_name")
    /\ call.kind = <<"triangle", "bar", "circle">>
    /\ exc.kind = "InvalidKind"
    /\ exc.items = <<"triangle", "circle">>

\* C2: a display call with a category that is not a column raises the missing-column
\* KeyError listing all absent names in their order in the category list, whatever
\* the kinds are, and no figure exists.
C2_MissingColumnFirst ==
    (/\ DisplayDone
     /\ ~AllCategoriesPresent)
    => /\ pc = "raised"
       /\ exc.type = "KeyError"
       /\ exc.kind = "MissingColumn"
       /\ exc.items = SelectSeq(call.category, LAMBDA c : c \notin ColNames(call.df))
       /\ figures = <<>>
       /\ shown = 0

C2_Witness ==
    /\ DisplayDone
    /\ call.category = <<"foo", "baz">>
    /\ call.kind = <<"triangle", "bar">>
    /\ exc.kind = "MissingColumn"
    /\ exc.items = <<"foo", "baz">>

ExtractReturned == call.op = "extract_parts" /\ pc = "returned"

\* the least q with m <= 3 q
CeilThird(m) == CHOOSE q \in 0..m : 3 * q >= m /\ 3 * (q - 1) < m

\* C4: in every row of the table extract_parts returns, quarter is the ceiling of
\* month / 3 for a month in 1..12; a row without a month has no quarter.
C4_QuarterOfMonth ==
    ExtractReturned =>
        \A i \in 1..NRows(heap[ret]) :
            LET m == CellsOf(heap[ret], "month")[i]
                q == CellsOf(heap[ret], "quarter")[i]
            IN  \/ m.k = "nan" /\ q.k = "nan"
                \/ /\ m.k = "int" /\ q.k = "int"
                   /\ m.f[1] \in 1..12
                   /\ q.f[1] = CeilThird(m.f[1])

C4_Witness ==
    /\ ExtractReturned
    /\ NRows(heap[ret]) = 2
    /\ CellsOf(heap[ret], "month") = <<IntCell(3), IntCell(4)>>
    /\ CellsOf(heap[ret], "quarter") = <<IntCell(1), IntCell(2)>>

LoadDone == call.op = "load_dataframe_from_file" /\ pc # "call"

\* C5: load_dataframe_from_file on a path that does not exist raises
\* FileNotFoundError and reads nothing; on a file that does not parse, or parses to
\* other than one column, it raises the format ValueError; otherwise it returns a
\* table of exactly one column, named timestamp, holding the rows of the file.
C5_LoadOutcome ==
    LoadDone =>
        LET file == fs[call.path]
        IN  IF file.state = "absent"
            THEN /\ pc = "raised"
                 /\ exc.type = "FileNotFoundError" /\ exc.kind = "NotFound"
                 /\ heap = <<>>
            ELSE IF file.state = "garbage" \/ Len(file.table) # 1
            THEN pc = "raised" /\ exc.type = "ValueError" /\ exc.kind = "FormatError"
            ELSE /\ pc = "returned"
                 /\ ret # None
                 /\ columns(heap[ret]) = <<"timestamp">>
                 /\ heap[ret][1].values = file.table[1].values

C5_Witness ==
    /\ LoadDone
    /\ pc = "returned"
    /\ fs[call.path].table[1].name = "ts"
    /\ NRows(heap[ret]) = 2

ExtractDone == call.op = "extract_parts" /\ pc # "call"

DerivedColumns ==
    {"day", "month", "year", "hour", "quarter", "weekday", "weekday_name", "is_weekend"}

\* C7: extract_parts raises the missing-column KeyError on a table without a
\* timestamp column and TypeError on a timestamp column that is not datetime, both
\* before any table is built; otherwise it returns a table with the rows of the
\* input and exactly the eight derived columns.
C7_ExtractPreconditions ==
    ExtractDone =>
        IF "timestamp" \notin ColNames(call.df)
        THEN /\ pc = "raised" /\ exc.type = "KeyError" /\ exc.kind = "MissingColumn"
             /\ heap = <<call.df>>
        ELSE IF \E c \in Range(call.df) : c.name = "timestamp" /\ c.dtype # "datetime64"
        THEN /\ pc = "raised" /\ exc.type = "TypeError" /\ exc.kind = "TypeMismatch"
             /\ heap = <<call.df>>
        ELSE /\ pc = "returned"
             /\ ret # None
             /\ ColNames(heap[ret]) = DerivedColumns
             /\ Len(heap[ret]) = Cardinality(DerivedColumns)
             /\ \A i \in 1..Len(heap[ret]) : Len(heap[ret][i].values) = NRows(call.df)

C7_Witness ==
    /\ ExtractDone
    /\ HasColumn(call.df, "timestamp")
    /\ GetColumn(call.df, "timestamp").dtype = "object"
    /\ NRows(call.df) = 1
    /\ exc.kind = "TypeMismatch"

\* the derived table of a run, once extract_parts has returned it
RunExtracted == pc \in {"print", "display", "exit"} /\ result_df # None

\* C3: in every row of the table a run derives, weekday is an integer 0..6,
\* is_weekend is 0 or 1, and is_weekend is 1 exactly when weekday is 5 or 6.
C3_WeekendOfWeekday ==
    RunExtracted =>
        \A i \in 1..NRows(heap[result_df]) :
            LET wd == CellsOf(heap[result_df], "weekday")[i]
                we == CellsOf(heap[result_df], "is_weekend")[i]
            IN  /\ wd.k = "int" /\ wd.f[1] \in 0..6
                /\ we.k = "int" /\ we.f[1] \in {0, 1}
                /\ (we.f[1] = 1) <=> (wd.f[1] \in {5, 6})

NormalizeDone == call.op = "convert_to_datetime" /\ pc # "call"

\* a string that does not read as a date and time
Unreadable(c) == c.k = "str" /\ ~parses_as_datetime(c)

\* C6: convert_to_datetime raises the missing-column KeyError without a timestamp
\* column and the parse ValueError, returning nothing, when a value does not read
\* as a date; otherwise it returns another table with the rows of the input whose
\* timestamp values are all datetime values; the table passed in is never changed.
C6_NormalizeAllOrNothing ==
    NormalizeDone =>
        /\ heap[1] = call.df
        /\ IF "timestamp" \notin ColNames(call.df)
           THEN pc = "raised" /\ exc.type = "KeyError" /\ exc.kind = "MissingColumn"
           ELSE IF \E c \in Range(CellsOf(call.df, "timestamp")) : Unreadable(c)
           THEN pc = "raised" /\ exc.kind = "ParseError" /\ ret = None
           ELSE /\ pc = "returned"
                /\ ret \notin {None, 1}
                /\ NRows(heap[ret]) = NRows(call.df)
                /\ \A c \in Range(CellsOf(heap[ret], "timestamp")) : c.k = "ts"

StageOrder(first) == <<first, "normalize", "extract", "print", "display">>

GenerateDone == call.op = "create_periodic_dataframe" /\ pc # "call"

\* the arguments are ones the generator accepts
GenerateArgsValid ==
    /\ parses_as_datetime(call.start)
    /\ call.freq.unit \in FREQ_UNITS
    /\ call.periods >= 0
    /\ ~date_range_raises

\* C9: create_periodic_dataframe never raises and always returns a table with a
\* timestamp column: periods values, the i-th equal to start + i * freq, when the
\* arguments are valid, and no rows otherwise.
C9_GeneratorAlwaysReturnsTable ==
    GenerateDone =>
        /\ pc = "returned"
        /\ ret # None
        /\ ret # None => /\ columns(heap[ret]) = <<"timestamp">>
                         /\ IF GenerateArgsValid
                            THEN /\ NRows(heap[ret]) = call.periods
                                 /\ \A i \in 1..call.periods :
                                       heap[ret][1].values[i] =
                                           Ts(parse_datetime(call.start)
                                              + (i - 1) * freq_minutes(call.freq))
                            ELSE NRows(heap[ret]) = 0

\* C10: past the dispatch, a command line naming exactly one of the two modes has
\* entered exactly one main function, and any other command line has been
\* rejected with none entered.
C10_ExactlyOnePipeline ==
    pc \notin {"start", "dispatch"} =>
        IF argv.example_synthetic # argv.file_given
        THEN Len(entered) = 1
        ELSE entered = <<>> /\ pc = "usage_error"

====
